---- MODULE Spec2Model ----
(***************************************************************************)
(* Model of src/app.py: the /analyze request handler of the voice          *)
(* sentiment analyzer (temporary file, transcription, per-segment emotion  *)
(* annotation, change-points, distribution) and the pure helpers           *)
(* _check_excitement and _fmt.                                             *)
(*                                                                         *)
(* Numbers are fixed point.  Scores are integers in units of 1/10000, so   *)
(* 0.25 is 2500 and round(x, 3) yields a multiple of 10.  Times are        *)
(* integers in milliseconds, so round(t, 2) yields a multiple of 10.       *)
(* Percentages are integers in units of 0.1 percent.  Strings that the     *)
(* code takes apart (file names, segment texts, mm:ss) are sequences of    *)
(* one-character strings.                                                  *)
(***************************************************************************)
EXTENDS Integers, Sequences, FiniteSets, TLC

VARIABLES
    pc,         \* position of the request inside analyze()
    request,    \* the incoming request: [hasAudio, filename]
    tmp,        \* the temporary file: [created, suffix, exists]
    result,     \* what asr_model.transcribe returned: [segments, text]
    duration,   \* local `duration` (raw end of the last raw segment, ms)
    idx,        \* index of the next raw segment of the for loop
    segments,   \* local `segments`: the annotated segments so far
    clfCalls,   \* every call made to emotion_clf: [seg, text, emotions, raised]
    response,   \* what the handler returned: [status, body]
    exc,        \* description of the exception raised, "" while none was
    escaped,    \* an exception left analyze() uncaught
    scores,     \* argument of a stand-alone _check_excitement call
    verdict     \* its return value: [called, fired, conf]

vars == <<pc, request, tmp, result, duration, idx, segments, clfCalls,
          response, exc, escaped, scores, verdict>>

-----------------------------------------------------------------------------
(* Bounds of the model *)

MaxSegs == 3

-----------------------------------------------------------------------------
(* Arithmetic helpers *)

\* floor(n / d) for d > 0 and any integer n
FloorDiv(n, d) == IF n >= 0 THEN n \div d ELSE -((-n + d - 1) \div d)

\* n / d rounded to the nearest integer, ties to the even neighbour: what
\* Python's round() computes on the exact quotient
RoundHalfEven(n, d) ==
    LET q == FloorDiv(n, d)
        r == n - q * d
    IN  IF 2 * r < d THEN q
        ELSE IF 2 * r > d THEN q + 1
        ELSE IF q % 2 = 0 THEN q ELSE q + 1

\* round(x, 3) of a score held in units of 1/10000
Round3(x) == 10 * RoundHalfEven(x, 10)

\* round(t, 2) of a time held in milliseconds
Round2(t) == 10 * RoundHalfEven(t, 10)

RECURSIVE SumOver(_, _)
SumOver(f, S) ==
    IF S = {} THEN 0
    ELSE LET x == CHOOSE y \in S : TRUE
         IN  f[x] + SumOver(f, S \ {x})

-----------------------------------------------------------------------------
(* _check_excitement *)

JoyWeight == 6          \* 0.6, in tenths
SurpriseWeight == 4     \* 0.4, in tenths
PrimaryThreshold == 2500    \* 0.25
SecondaryThreshold == 1200  \* 0.12

\* scores.get(key, 0)
Get(sc, key) == IF key \in DOMAIN sc THEN sc[key] ELSE 0

\* faulty variant: both scores must clear the primary threshold
FiresSymmetric(joy, surprise) ==
    joy >= PrimaryThreshold /\ surprise >= PrimaryThreshold

Fires(joy, surprise) ==
    \/ (joy >= PrimaryThreshold /\ surprise >= SecondaryThreshold)
    \/ (surprise >= PrimaryThreshold /\ joy >= SecondaryThreshold)

\* round(joy * 0.6 + surprise * 0.4, 3)
FusedConfidence(joy, surprise) ==
    10 * RoundHalfEven(JoyWeight * joy + SurpriseWeight * surprise, 100)

_check_excitement(sc) ==
    LET joy == Get(sc, "joy")
        surprise == Get(sc, "surprise")
    IN  IF Fires(joy, surprise)
        THEN [fired |-> TRUE, conf |-> FusedConfidence(joy, surprise)]
        ELSE [fired |-> FALSE, conf |-> 0]

-----------------------------------------------------------------------------
(* Strings as sequences of characters *)

Whitespace == {" "}

RECURSIVE LStrip(_)
LStrip(s) ==
    IF s # <<>> /\ Head(s) \in Whitespace THEN LStrip(Tail(s)) ELSE s

RECURSIVE RStrip(_)
RStrip(s) ==
    IF s # <<>> /\ s[Len(s)] \in Whitespace
    THEN RStrip(SubSeq(s, 1, Len(s) - 1))
    ELSE s

\* faulty variant: the text is not trimmed
NoStrip(s) == s

\* str.strip()
Strip(s) == RStrip(LStrip(s))

\* os.path.splitext(name)[1]: from the last dot on, unless only dots
\* precede it (file names here hold no directory separator)
SplitextExt(name) ==
    LET dots == {i \in 1..Len(name) : name[i] = "."}
    IN  IF dots = {} THEN <<>>
        ELSE LET last == CHOOSE i \in dots : \A j \in dots : j <= i
             IN  IF \E k \in 1..(last - 1) : name[k] # "."
                 THEN SubSeq(name, last, Len(name))
                 ELSE <<>>

DefaultExt == <<".", "w">>

\* ext = os.path.splitext(file.filename)[1] or ".wav"
ExtOf(name) == IF SplitextExt(name) = <<>> THEN DefaultExt ELSE SplitextExt(name)

Digit(d) == <<"0", "1", "2", "3", "4", "5", "6", "7", "8", "9">>[d + 1]

RECURSIVE Decimal(_)
Decimal(n) == IF n < 10 THEN <<Digit(n)>> ELSE Decimal(n \div 10) \o <<Digit(n % 10)>>

\* _fmt(seconds): int() truncates, divmod by 60, "{m}:{s:02d}"
_fmt(t) ==
    LET whole == t \div 1000
        m == whole \div 60
        s == whole % 60
    IN  Decimal(m) \o <<":">> \o <<Digit(s \div 10), Digit(s % 10)>>

-----------------------------------------------------------------------------
(* Segment annotation: lines 80-103 of analyze() *)

\* max(emotions, key=lambda e: e["score"]): the first maximum
Dominant(emotions) ==
    LET i == CHOOSE k \in 1..Len(emotions) :
                 /\ \A j \in 1..Len(emotions) : emotions[j].score <= emotions[k].score
                 /\ \A j \in 1..(k - 1) : emotions[j].score < emotions[k].score
    IN  emotions[i]

\* {e["label"]: round(e["score"], 3) for e in emotions}: a later entry of
\* the same label overwrites an earlier one
ScoreDict(emotions) ==
    LET labels == {emotions[i].label : i \in 1..Len(emotions)}
        lastOf(l) == CHOOSE i \in 1..Len(emotions) :
                         /\ emotions[i].label = l
                         /\ \A j \in (i + 1)..Len(emotions) : emotions[j].label # l
    IN  [l \in labels |-> Round3(emotions[lastOf(l)].score)]

\* score_dict["excitement"] = exc_conf
WithExcitement(sd, conf) ==
    [l \in DOMAIN sd \cup {"excitement"} |-> IF l = "excitement" THEN conf ELSE sd[l]]

\* faulty variant: excitement wins only when it is at least the dominant score
AnnotateDominantFirst(seg, text, emotions) ==
    LET dominant == Dominant(emotions)
        score_dict == ScoreDict(emotions)
        detected == _check_excitement(score_dict)
        beaten == detected.fired /\ detected.conf >= Round3(dominant.score)
    IN  [start |-> Round2(seg.start),
         end |-> Round2(seg.end),
         text |-> text,
         emotion |-> IF beaten THEN "excitement" ELSE dominant.label,
         confidence |-> IF beaten THEN detected.conf ELSE Round3(dominant.score),
         scores |-> IF beaten THEN WithExcitement(score_dict, detected.conf) ELSE score_dict]

Annotate(seg, text, emotions) ==
    LET dominant == Dominant(emotions)
        score_dict == ScoreDict(emotions)
        detected == _check_excitement(score_dict)
    IN  [start |-> Round2(seg.start),
         end |-> Round2(seg.end),
         text |-> text,
         emotion |-> IF detected.fired THEN "excitement" ELSE dominant.label,
         confidence |-> IF detected.fired THEN detected.conf ELSE Round3(dominant.score),
         scores |-> IF detected.fired THEN WithExcitement(score_dict, detected.conf) ELSE score_dict]

-----------------------------------------------------------------------------
(* Aggregation: lines 105-124 of analyze() *)

ChangeAt(segs, i) ==
    [time |-> segs[i].start,
     time_fmt |-> _fmt(segs[i].start),
     from |-> segs[i - 1].emotion,
     to |-> segs[i].emotion]

RECURSIVE ChangesUpTo(_, _)
ChangesUpTo(segs, n) ==
    IF n < 2 THEN <<>>
    ELSE LET before == ChangesUpTo(segs, n - 1)
         IN  IF segs[n].emotion # segs[n - 1].emotion
             THEN Append(before, ChangeAt(segs, n))
             ELSE before

\* faulty variant: a change-point for every pair, equal emotions included
RECURSIVE ChangesEveryPair(_, _)
ChangesEveryPair(segs, n) ==
    IF n < 2 THEN <<>>
    ELSE Append(ChangesEveryPair(segs, n - 1), ChangeAt(segs, n))

AllPairChanges(segs) == ChangesEveryPair(segs, Len(segs))

\* for i in range(1, len(segments)): ... changes.append(...)
Changes(segs) == ChangesUpTo(segs, Len(segs))

\* emo_dur[seg["emotion"]] = emo_dur.get(seg["emotion"], 0) + d
RECURSIVE EmoDurUpTo(_, _)
EmoDurUpTo(segs, n) ==
    IF n = 0 THEN [l \in {} |-> 0]
    ELSE LET before == EmoDurUpTo(segs, n - 1)
             e == segs[n].emotion
             d == segs[n].end - segs[n].start
         IN  [l \in DOMAIN before \cup {e} |->
                 IF l = e THEN Get(before, e) + d ELSE before[l]]

EmoDur(segs) == EmoDurUpTo(segs, Len(segs))

\* total = sum(emo_dur.values()) or 1   (1 is one second: 1000 ms)
\* faulty variant: the longest duration as the divisor instead of the sum
TotalLongest(emo_dur) ==
    LET sum == SumOver(emo_dur, DOMAIN emo_dur)
        top == CHOOSE v \in {emo_dur[l] : l \in DOMAIN emo_dur} \cup {0} :
                   \A l \in DOMAIN emo_dur : emo_dur[l] <= v
    IN  IF sum = 0 THEN 1000 ELSE top

Total(emo_dur) ==
    LET sum == SumOver(emo_dur, DOMAIN emo_dur)
    IN  IF sum = 0 THEN 1000 ELSE sum

\* {k: round(v / total * 100, 1) for k, v in emo_dur.items()}, in units of 0.1
Distribution(segs) ==
    LET emo_dur == EmoDur(segs)
        total == Total(emo_dur)
    IN  [k \in DOMAIN emo_dur |-> RoundHalfEven(1000 * emo_dur[k], total)]

-----------------------------------------------------------------------------
(* Inputs: the request, what the two models return, what can fail *)

Filenames == {<<>>, <<"a">>, <<"a", ".", "m">>}

Requests ==
    {[hasAudio |-> FALSE, filename |-> <<>>]}
        \cup {[hasAudio |-> TRUE, filename |-> f] : f \in Filenames}

\* raw timestamps in ms: 1.996 s and 2.004 s both round to 2.00 s
TimeGrid == {0, 1996, 2004, 66000}

Texts == {<<" ">>, <<" ", "h", "i", " ">>}

RawSegmentValues ==
    {sg \in [start : TimeGrid, end : TimeGrid, text : Texts] : sg.start <= sg.end}

\* Whisper's segments are chronological: each starts no earlier than the
\* previous one ends
Chronological(rs) ==
    \A i \in 2..Len(rs) : rs[i - 1].end <= rs[i].start

RawSegmentLists ==
    UNION {{rs \in [1..n -> RawSegmentValues] : Chronological(rs)} : n \in 0..MaxSegs}

RECURSIVE Join(_)
Join(rs) == IF rs = <<>> THEN <<>> ELSE Head(rs).text \o Join(Tail(rs))

\* result["text"] is the concatenation of the segment texts
Transcriptions ==
    {[returned |-> TRUE, segments |-> rs, text |-> Join(rs)] : rs \in RawSegmentLists}

\* one classifier answer: the seven labels of the model, in its output order
Emo(anger, disgust, fear, joy, neutral, sadness, surprise) ==
    <<[label |-> "anger", score |-> anger],
      [label |-> "disgust", score |-> disgust],
      [label |-> "fear", score |-> fear],
      [label |-> "joy", score |-> joy],
      [label |-> "neutral", score |-> neutral],
      [label |-> "sadness", score |-> sadness],
      [label |-> "surprise", score |-> surprise]>>

ClassifierOutputs ==
    { Emo(100, 100, 100, 8000, 1000, 100, 500),     \* plain joy
      Emo(100, 100, 100, 3000, 3500, 100, 3000),    \* excitement under a higher neutral
      Emo(100, 100, 100, 2496, 5000, 100, 1300),    \* joy just under 0.25
      Emo(100, 100, 100, 500, 4000, 4000, 500) }    \* neutral and sadness tie

SaveFailures == {"save: no space left on device"}
AsrFailures == {"asr: cannot decode audio"}
ClfFailures == {"clf: inference failed"}

ErrorBody(msg) == [error |-> msg]

NoResponse == [status |-> 0, body |-> ErrorBody("")]

Respond(code, body) == [status |-> code, body |-> body]

\* lines 136-137: except Exception as exc: return jsonify({"error": str(exc)}), 500
Except(msg) == Respond(500, ErrorBody(msg))

NoTmp == [created |-> FALSE, suffix |-> <<>>, exists |-> FALSE]
NoResult == [returned |-> FALSE, segments |-> <<>>, text |-> <<>>]
NoVerdict == [called |-> FALSE, fired |-> FALSE, conf |-> 0]
NoScores == [l \in {} |-> 0]

-----------------------------------------------------------------------------
(* The request handler analyze() *)

Init ==
    /\ pc = "start"
    /\ request \in Requests
    /\ tmp = NoTmp
    /\ result = NoResult
    /\ duration = 0
    /\ idx = 1
    /\ segments = <<>>
    /\ clfCalls = <<>>
    /\ response = NoResponse
    /\ exc = ""
    /\ escaped = FALSE
    /\ scores = NoScores
    /\ verdict = NoVerdict

\* lines 52-53
RejectNoAudio ==
    /\ pc = "start"
    /\ ~request.hasAudio
    /\ response' = Respond(400, ErrorBody("No audio file provided."))
    /\ pc' = "done"
    /\ UNCHANGED <<request, tmp, result, duration, idx, segments, clfCalls,
                   exc, escaped, scores, verdict>>

\* lines 55-57
RejectNoFilename ==
    /\ pc = "start"
    /\ request.hasAudio
    /\ request.filename = <<>>
    /\ response' = Respond(400, ErrorBody("No file selected."))
    /\ pc' = "done"
    /\ UNCHANGED <<request, tmp, result, duration, idx, segments, clfCalls,
                   exc, escaped, scores, verdict>>

\* lines 59-60: NamedTemporaryFile(delete=False, suffix=ext)
CreateTemp ==
    /\ pc = "start"
    /\ request.hasAudio
    /\ request.filename # <<>>
    /\ tmp' = [created |-> TRUE, suffix |-> ExtOf(request.filename), exists |-> TRUE]
    /\ pc' = "save"
    /\ UNCHANGED <<request, result, duration, idx, segments, clfCalls,
                   response, exc, escaped, scores, verdict>>

\* lines 61-62: file.save(tmp.name); tmp.close()
SaveUpload ==
    /\ pc = "save"
    /\ pc' = "transcribe"
    /\ UNCHANGED <<request, tmp, result, duration, idx, segments, clfCalls,
                   response, exc, escaped, scores, verdict>>

\* line 61 raises: the statement is outside the try, nothing catches it
SaveRaises ==
    /\ pc = "save"
    /\ \E msg \in SaveFailures : exc' = msg
    /\ escaped' = TRUE
    /\ pc' = "done"
    /\ UNCHANGED <<request, tmp, result, duration, idx, segments, clfCalls,
                   response, scores, verdict>>

\* line 66 raises: caught by lines 136-137
TranscribeRaises ==
    /\ pc = "transcribe"
    /\ \E msg \in AsrFailures :
        /\ exc' = msg
        /\ response' = Except(msg)
    /\ pc' = "finally"
    /\ UNCHANGED <<request, tmp, result, duration, idx, segments, clfCalls,
                   escaped, scores, verdict>>

\* faulty variant: no emptiness check, raw_segments[-1] raises IndexError
TranscribeNoSpeechUnchecked ==
    /\ pc = "transcribe"
    /\ \E r \in Transcriptions :
        /\ r.segments = <<>>
        /\ result' = r
    /\ exc' = "list index out of range"
    /\ response' = Except("list index out of range")
    /\ pc' = "finally"
    /\ UNCHANGED <<request, tmp, duration, idx, segments, clfCalls,
                   escaped, scores, verdict>>

\* lines 66-70: no segments
TranscribeNoSpeech ==
    /\ pc = "transcribe"
    /\ \E r \in Transcriptions :
        /\ r.segments = <<>>
        /\ result' = r
    /\ response' = Respond(400, ErrorBody("No speech detected. Try a clearer recording."))
    /\ pc' = "finally"
    /\ UNCHANGED <<request, tmp, duration, idx, segments, clfCalls,
                   exc, escaped, scores, verdict>>

\* lines 66-75: some segments
TranscribeSpeech ==
    /\ pc = "transcribe"
    /\ \E r \in Transcriptions :
        /\ r.segments # <<>>
        /\ result' = r
        /\ duration' = r.segments[Len(r.segments)].end
    /\ segments' = <<>>
    /\ idx' = 1
    /\ pc' = "loop"
    /\ UNCHANGED <<request, tmp, clfCalls, response, exc, escaped, scores, verdict>>

\* lines 76-79: text empty after strip, continue
SkipSegment ==
    /\ pc = "loop"
    /\ idx <= Len(result.segments)
    /\ Strip(result.segments[idx].text) = <<>>
    /\ idx' = idx + 1
    /\ UNCHANGED <<pc, request, tmp, result, duration, segments, clfCalls,
                   response, exc, escaped, scores, verdict>>

\* lines 76-103: one segment classified and annotated
AnnotateSegment ==
    /\ pc = "loop"
    /\ idx <= Len(result.segments)
    /\ LET seg == result.segments[idx]
           text == Strip(seg.text)
       IN  /\ text # <<>>
           /\ \E emotions \in ClassifierOutputs :
               /\ clfCalls' = Append(clfCalls, [seg |-> idx, text |-> text,
                                                emotions |-> emotions, raised |-> FALSE])
               /\ segments' = Append(segments, Annotate(seg, text, emotions))
    /\ idx' = idx + 1
    /\ UNCHANGED <<pc, request, tmp, result, duration, response, exc, escaped,
                   scores, verdict>>

\* faulty variant: a classifier failure only skips the segment
ClassifierRaisesSkips ==
    /\ pc = "loop"
    /\ idx <= Len(result.segments)
    /\ LET text == Strip(result.segments[idx].text)
       IN  /\ text # <<>>
           /\ clfCalls' = Append(clfCalls, [seg |-> idx, text |-> text,
                                            emotions |-> <<>>, raised |-> TRUE])
    /\ \E msg \in ClfFailures : exc' = msg
    /\ idx' = idx + 1
    /\ UNCHANGED <<pc, request, tmp, result, duration, segments, response,
                   escaped, scores, verdict>>

\* line 80 raises: caught by lines 136-137
ClassifierRaises ==
    /\ pc = "loop"
    /\ idx <= Len(result.segments)
    /\ LET text == Strip(result.segments[idx].text)
       IN  /\ text # <<>>
           /\ clfCalls' = Append(clfCalls, [seg |-> idx, text |-> text,
                                            emotions |-> <<>>, raised |-> TRUE])
    /\ \E msg \in ClfFailures :
        /\ exc' = msg
        /\ response' = Except(msg)
    /\ pc' = "finally"
    /\ UNCHANGED <<request, tmp, result, duration, idx, segments, escaped,
                   scores, verdict>>

\* faulty variant: duration taken from the last annotated segment
PayloadAnnotatedEnd(segs, dur, text) ==
    [segments |-> segs,
     changes |-> Changes(segs),
     distribution |-> Distribution(segs),
     duration |-> IF segs = <<>> THEN 0 ELSE segs[Len(segs)].end,
     text |-> text]

\* lines 126-134
Payload(segs, dur, text) ==
    [segments |-> segs,
     changes |-> Changes(segs),
     distribution |-> Distribution(segs),
     duration |-> Round2(dur),
     text |-> text]

\* lines 105-134: the loop is over
Aggregate ==
    /\ pc = "loop"
    /\ idx > Len(result.segments)
    /\ response' = Respond(200, Payload(segments, duration, result.text))
    /\ pc' = "finally"
    /\ UNCHANGED <<request, tmp, result, duration, idx, segments, clfCalls,
                   exc, escaped, scores, verdict>>

\* lines 139-140: os.unlink(tmp.name), then the pending return
Finally ==
    /\ pc = "finally"
    /\ tmp' = [tmp EXCEPT !.exists = FALSE]
    /\ pc' = "done"
    /\ UNCHANGED <<request, result, duration, idx, segments, clfCalls,
                   response, exc, escaped, scores, verdict>>

Next ==
    \/ RejectNoAudio
    \/ RejectNoFilename
    \/ CreateTemp
    \/ SaveUpload
    \/ SaveRaises
    \/ TranscribeRaises
    \/ TranscribeNoSpeech
    \/ TranscribeSpeech
    \/ SkipSegment
    \/ AnnotateSegment
    \/ ClassifierRaises
    \/ Aggregate
    \/ Finally

Spec == Init /\ [][Next]_vars

-----------------------------------------------------------------------------
(* _check_excitement called on its own, on any score mapping *)

ScoreGrid == {0, 500, 1196, 1199, 1200, 1214, 2496, 2499, 2500, 2504, 3000, 8000}

\* joy and surprise each present with a grid value, or absent
ScoreMappings == UNION {[D -> ScoreGrid] : D \in SUBSET {"joy", "surprise"}}

InitExcitement ==
    /\ pc = "detector"
    /\ request = [hasAudio |-> FALSE, filename |-> <<>>]
    /\ tmp = NoTmp
    /\ result = NoResult
    /\ duration = 0
    /\ idx = 1
    /\ segments = <<>>
    /\ clfCalls = <<>>
    /\ response = NoResponse
    /\ exc = ""
    /\ escaped = FALSE
    /\ scores \in ScoreMappings
    /\ verdict = NoVerdict

CheckExcitement ==
    /\ pc = "detector"
    /\ ~verdict.called
    /\ verdict' = [called |-> TRUE,
                   fired |-> _check_excitement(scores).fired,
                   conf |-> _check_excitement(scores).conf]
    /\ UNCHANGED <<pc, request, tmp, result, duration, idx, segments, clfCalls,
                   response, exc, escaped, scores>>

NextExcitement == CheckExcitement

SpecExcitement == InitExcitement /\ [][NextExcitement]_vars

-----------------------------------------------------------------------------
(* Properties *)

\* the value a score mapping holds for a label, 0 when the label is absent
ValueOr0(sc, l) == IF l \in DOMAIN sc THEN sc[l] ELSE 0

\* C2: the detector fires exactly when (joy >= 0.25 and surprise >= 0.12) or
\* (surprise >= 0.25 and joy >= 0.12), a missing joy or surprise counting as
\* 0; when it fires the confidence is round(0.6*joy + 0.4*surprise, 3), and
\* when it does not the result is (False, 0.0).  It never fires with both
\* below 0.12, and at joy = 0.25, surprise = 0.12 it fires with 0.198.
C2_ExcitementRule ==
    verdict.called =>
        LET j == ValueOr0(scores, "joy")
            s == ValueOr0(scores, "surprise")
            should == (j >= 2500 /\ s >= 1200) \/ (s >= 2500 /\ j >= 1200)
        IN  /\ verdict.fired = should
            /\ should => /\ verdict.conf % 10 = 0
                         /\ 10 * verdict.conf - 50 <= 6 * j + 4 * s
                         /\ 6 * j + 4 * s <= 10 * verdict.conf + 50
            /\ ~should => verdict.conf = 0
            /\ (j < 1200 /\ s < 1200) => ~verdict.fired
            /\ (j = 2500 /\ s = 1200) => (verdict.fired /\ verdict.conf = 1980)

\* C2 witness: the second condition triggers (surprise primary, joy
\* secondary), and the boundary case has been evaluated too
C2_Witness ==
    /\ verdict.called
    /\ verdict.fired
    /\ ValueOr0(scores, "surprise") >= 2500
    /\ ValueOr0(scores, "joy") < 2500
    /\ verdict.conf = 10 * RoundHalfEven(6 * scores["joy"] + 4 * scores["surprise"], 100)

\* helpers of the properties below
Raw == result.segments

\* the request has ended with a success response
Ok == pc = "done" /\ response.status = 200

\* the annotated segments a success response carries
Out == response.body.segments

\* a text that is empty after trimming: nothing but whitespace
Blank(t) == \A i \in 1..Len(t) : t[i] = " "

\* v is n/d rounded to the nearest integer (either neighbour on a tie)
Nearest(v, n, d) == 2 * (v * d - n) <= d /\ 2 * (n - v * d) <= d

\* the classifier answer as a mapping of unrounded scores
RawScores(emotions) ==
    [l \in {emotions[i].label : i \in 1..Len(emotions)} |->
        emotions[CHOOSE i \in 1..Len(emotions) : emotions[i].label = l].score]

\* the index of the first maximum of the raw scores
FirstMax(emotions) ==
    CHOOSE i \in 1..Len(emotions) :
        /\ \A j \in 1..Len(emotions) : emotions[j].score <= emotions[i].score
        /\ \A j \in 1..(i - 1) : emotions[j].score # emotions[i].score

\* annotated segment k was made from classifier call k
Aligned ==
    /\ Len(segments) = Cardinality({k \in 1..Len(clfCalls) : ~clfCalls[k].raised})
    /\ \A k \in 1..Len(segments) : ~clfCalls[k].raised

\* C1: whenever the temporary file was created, it is gone when the request
\* ends, on every exit path (success, no speech, model failure, failed save).
C1_TempFileDeleted ==
    (pc = "done" /\ tmp.created) => ~tmp.exists

\* C3: a segment is labelled "excitement" whenever the detector fires for it,
\* even under a higher raw score, otherwise it carries the first maximum raw
\* label with that score rounded to 3 decimals; scores has an "excitement"
\* key exactly when the emotion is "excitement", equal to the confidence, and
\* every other entry is the raw score rounded to 3 decimals.
C3_OneLabelPerSegment ==
    Ok =>
        /\ Aligned
        /\ Len(Out) = Len(segments)
        /\ \A k \in 1..Len(Out) :
            LET e == clfCalls[k].emotions
                a == Out[k]
                labels == {e[i].label : i \in 1..Len(e)}
                det == _check_excitement([l \in labels |-> a.scores[l]])
                top == e[FirstMax(e)]
            IN  /\ DOMAIN a.scores \ {"excitement"} = labels
                /\ \A l \in labels :
                    /\ a.scores[l] % 10 = 0
                    /\ Nearest(a.scores[l] \div 10, RawScores(e)[l], 10)
                /\ det.fired => (a.emotion = "excitement" /\ a.confidence = det.conf)
                /\ ~det.fired => /\ a.emotion = top.label
                                 /\ a.confidence = a.scores[top.label]
                /\ ("excitement" \in DOMAIN a.scores) = (a.emotion = "excitement")
                /\ a.emotion = "excitement" => a.scores["excitement"] = a.confidence

\* C3 witness: a finished run holds an "excitement" segment one of whose raw
\* labels scores strictly above joy, surprise and the fused confidence, and a
\* segment labelled by a tie broken towards the first maximum
C3_Witness ==
    /\ Ok
    /\ \E k \in 1..Len(Out) :
        /\ Out[k].emotion = "excitement"
        /\ \E i \in 1..Len(clfCalls[k].emotions) :
            /\ clfCalls[k].emotions[i].score > Out[k].confidence
            /\ clfCalls[k].emotions[i].score > RawScores(clfCalls[k].emotions)["joy"]
    /\ \E k \in 1..Len(Out) :
        /\ Out[k].emotion = "neutral"
        /\ RawScores(clfCalls[k].emotions)["sadness"] = RawScores(clfCalls[k].emotions)["neutral"]

\* the raw segments that are not blank, and the position of one among them
NonBlank == {i \in 1..Len(Raw) : ~Blank(Raw[i].text)}

Position(i) == Cardinality({j \in NonBlank : j <= i})

\* non-blank raw segments with only blank ones between them
Neighbours(i, j) ==
    /\ i \in NonBlank
    /\ j \in NonBlank
    /\ i < j
    /\ \A m \in (i + 1)..(j - 1) : m \notin NonBlank

RECURSIVE SumWidths(_)
SumWidths(S) ==
    IF S = {} THEN 0
    ELSE LET i == CHOOSE x \in S : TRUE
         IN  Out[Position(i)].end - Out[Position(i)].start + SumWidths(S \ {i})

\* C4: a raw segment that is blank after trimming is never classified, makes
\* no annotated segment, adds no duration to the distribution and takes no
\* part in a change-point; change-points compare neighbours of the filtered
\* sequence; the annotated segments keep the order of the raw ones.
C4_BlankSegmentsDropped ==
    /\ \A k \in 1..Len(clfCalls) :
        /\ clfCalls[k].seg \in NonBlank
        /\ clfCalls[k].text # <<>>
        /\ \A m \in 1..(k - 1) : clfCalls[m].seg < clfCalls[k].seg
    /\ Ok =>
        /\ Aligned
        /\ Len(Out) = Cardinality(NonBlank)
        /\ \A i \in NonBlank :
            LET a == Out[Position(i)]
            IN  /\ clfCalls[Position(i)].seg = i
                /\ Nearest(a.start \div 10, Raw[i].start, 10)
                /\ Nearest(a.end \div 10, Raw[i].end, 10)
                /\ a.text # <<>>
                /\ a.text[1] # " "
                /\ a.text[Len(a.text)] # " "
        /\ \A i \in NonBlank : \A j \in NonBlank :
            Neighbours(i, j) =>
                LET a == Out[Position(i)]
                    b == Out[Position(j)]
                IN  (a.emotion # b.emotion) =
                        (\E c \in 1..Len(response.body.changes) :
                            /\ response.body.changes[c].time = b.start
                            /\ response.body.changes[c].from = a.emotion
                            /\ response.body.changes[c].to = b.emotion)
        /\ Len(response.body.changes) =
               Cardinality({j \in NonBlank : \E i \in NonBlank :
                   /\ Neighbours(i, j)
                   /\ Out[Position(i)].emotion
                          # Out[Position(j)].emotion})
        /\ LET total == SumWidths(NonBlank)
               divisor == IF total = 0 THEN 1000 ELSE total
           IN  \A l \in DOMAIN response.body.distribution :
                   Nearest(response.body.distribution[l],
                           1000 * SumWidths({i \in NonBlank :
                               Out[Position(i)].emotion = l}),
                           divisor)

\* C4 witness: a blank raw segment of positive width lies between two
\* non-blank ones of different emotion, which make the one change-point
C4_Witness ==
    /\ Ok
    /\ Len(Raw) = 3
    /\ NonBlank = {1, 3}
    /\ Raw[2].start < Raw[2].end
    /\ Len(Out) = 2
    /\ Len(response.body.changes) = 1
    /\ response.body.changes[1].time = Out[2].start

\* the indices whose segment differs in emotion from the one before
Differ == {i \in 2..Len(Out) : Out[i].emotion # Out[i - 1].emotion}

\* the change-points are exactly those of Differ, in the order of the segments
ChangesExact ==
    /\ Len(response.body.changes) = Cardinality(Differ)
    /\ \A i \in Differ :
        LET c == response.body.changes[Cardinality({j \in Differ : j <= i})]
        IN  /\ c.time = Out[i].start
            /\ c.from = Out[i - 1].emotion
            /\ c.to = Out[i].emotion
    /\ \A c \in 1..Len(response.body.changes) :
        response.body.changes[c].from # response.body.changes[c].to

\* C5 as stated: at most (annotated segments - 1) change-points, from != to,
\* and exactly one change-point per index whose emotion differs, in order.
C5_AsStated ==
    Ok => /\ Len(response.body.changes) <= Len(Out) - 1
          /\ ChangesExact

\* C5 amended: the change-point count is at most the annotated-segment count
\* minus 1 when there is an annotated segment, and 0 when there is none;
\* every change-point has from != to; there is exactly one per index i >= 1
\* whose emotion differs from the one before, with time = segments[i].start,
\* from and to the two emotions, in the order of the segments.
C5_ChangePoints ==
    Ok => /\ Out # <<>> => Len(response.body.changes) <= Len(Out) - 1
          /\ Out = <<>> => response.body.changes = <<>>
          /\ ChangesExact

\* C5 witness: three segments, the emotion changes once and then stays
C5_Witness ==
    /\ Ok
    /\ Len(Out) = 3
    /\ Out[1].emotion # Out[2].emotion
    /\ Out[2].emotion = Out[3].emotion
    /\ Len(response.body.changes) = 1
    /\ response.body.changes[1].time = Out[2].start

\* the emotions of the returned segments and the width each one covers
Emotions == {Out[k].emotion : k \in 1..Len(Out)}

RECURSIVE Width(_, _)
Width(l, n) ==
    IF n = 0 THEN 0
    ELSE Width(l, n - 1) + (IF Out[n].emotion = l THEN Out[n].end - Out[n].start ELSE 0)

RECURSIVE SumPercent(_)
SumPercent(S) ==
    IF S = {} THEN 0
    ELSE LET l == CHOOSE x \in S : TRUE
         IN  response.body.distribution[l] + SumPercent(S \ {l})

RECURSIVE WidthUpTo(_)
WidthUpTo(n) == IF n = 0 THEN 0 ELSE WidthUpTo(n - 1) + Out[n].end - Out[n].start

TotalWidth == WidthUpTo(Len(Out))

\* C6: for a non-empty annotated sequence of nonzero total duration, each
\* percentage is round(label_duration / total * 100, 1), the percentages add
\* up to 100.0 within 0.5, and the keys are exactly the emotions that occur.
C6_DistributionSums ==
    (Ok /\ Out # <<>> /\ TotalWidth # 0) =>
        /\ DOMAIN response.body.distribution = Emotions
        /\ \A l \in Emotions :
            Nearest(response.body.distribution[l], 1000 * Width(l, Len(Out)), TotalWidth)
        /\ SumPercent(Emotions) >= 1000 - 5
        /\ SumPercent(Emotions) <= 1000 + 5

\* C6 witness: two emotions share the duration unevenly
C6_Witness ==
    /\ Ok
    /\ Cardinality(Emotions) = 2
    /\ \E l \in Emotions :
        /\ response.body.distribution[l] > 0
        /\ response.body.distribution[l] < 500

\* C7: an empty raw segment list ends the request with the 400 'no speech
\* detected' error, not the 500 one, without any classifier call and without
\* segments, changes or distribution in the response.
C7_NoSpeech ==
    (result.returned /\ Raw = <<>>) =>
        /\ pc \in {"finally", "done"}
        /\ response.status = 400
        /\ DOMAIN response.body = {"error"}
        /\ response.body.error = "No speech detected. Try a clearer recording."
        /\ clfCalls = <<>>
        /\ segments = <<>>
        /\ exc = ""
        /\ ~escaped

\* C7 witness: the request has ended after an empty transcription
C7_Witness ==
    /\ pc = "done"
    /\ result.returned
    /\ Raw = <<>>
    /\ response.status = 400

\* C8: a failure of the transcription or of one classifier call ends the
\* request with one 500 response carrying the failure's description: the
\* failed call is the last classifier call (no later segment, no retry), no
\* segments, changes or distribution are returned, nothing escapes.
C8_FailureIsFatal ==
    /\ \A k \in 1..Len(clfCalls) :
        clfCalls[k].raised => (k = Len(clfCalls) /\ exc \in ClfFailures)
    /\ exc \in AsrFailures => (clfCalls = <<>> /\ ~result.returned)
    /\ exc \in ClfFailures => clfCalls[Len(clfCalls)].raised
    /\ exc \in AsrFailures \cup ClfFailures =>
        /\ pc \in {"finally", "done"}
        /\ response.status = 500
        /\ DOMAIN response.body = {"error"}
        /\ response.body.error = exc
        /\ ~escaped

\* C8 witness: the classifier failed after a segment had been annotated and
\* before the last non-blank raw segment was reached
C8_Witness ==
    /\ pc = "done"
    /\ exc \in ClfFailures
    /\ Len(segments) >= 1
    /\ idx < Len(Raw)
    /\ ~Blank(Raw[Len(Raw)].text)
    /\ response.status = 500

\* C9: emotion and confidence of every segment are what the detector returns
\* on the classifier's unrounded scores (and the rounded dominant score when
\* it does not fire on them).
C9_RawScoresDecide ==
    Ok =>
        \A k \in 1..Len(Out) :
            LET e == clfCalls[k].emotions
                det == _check_excitement(RawScores(e))
                top == e[FirstMax(e)]
            IN  /\ Out[k].emotion = IF det.fired THEN "excitement" ELSE top.label
                /\ Out[k].confidence = IF det.fired THEN det.conf ELSE Round3(top.score)

\* C10: when every annotated segment has start = end the run succeeds, every
\* percentage is 0.0, and the duration is the end of the last raw segment
\* rounded to 2 decimals, whatever the widths and whether or not that last
\* raw segment was dropped.
C10_ZeroLength ==
    /\ (pc = "done" /\ exc = "" /\ result.returned /\ Raw # <<>>) => response.status = 200
    /\ Ok =>
        /\ response.body.duration % 10 = 0
        /\ Nearest(response.body.duration \div 10, Raw[Len(Raw)].end, 10)
        /\ (\A k \in 1..Len(Out) : Out[k].start = Out[k].end) =>
               \A l \in DOMAIN response.body.distribution :
                   response.body.distribution[l] = 0

\* C10 witness: the only annotated segments have zero width (one of them only
\* after rounding), the last raw segment is blank and was dropped, and the
\* duration is its end
C10_Witness ==
    /\ Ok
    /\ Out # <<>>
    /\ \A k \in 1..Len(Out) : Out[k].start = Out[k].end
    /\ \E i \in NonBlank : Raw[i].start < Raw[i].end
    /\ Blank(Raw[Len(Raw)].text)
    /\ response.body.duration = 66000
    /\ Out[Len(Out)].end < 66000
    /\ \A l \in DOMAIN response.body.distribution : response.body.distribution[l] = 0

====
